---- MODULE Spec2Model ----
(***************************************************************************)
(* Model of the property risk assessment backend:                          *)
(*   backend/risk_assessment.py  get_llm, assess_property_category,        *)
(*                               get_risk_assessment                        *)
(*   backend/models.py           PropertyData, RiskLevel, RiskFactor,      *)
(*                               RiskCategory                               *)
(*   backend/app.py              POST /api/assess (assess_property)        *)
(*                                                                         *)
(* Python values are represented as follows.  An Optional value is a       *)
(* sequence of length 0 (None) or 1.  An object or dict is a function      *)
(* whose DOMAIN is the set of attributes / keys it has, so that a missing  *)
(* attribute or key is a name outside the DOMAIN.  A list is a sequence.   *)
(***************************************************************************)
EXTENDS Integers, Sequences, FiniteSets, TLC

(***************************************************************************)
(* Bounds of the model.                                                    *)
(***************************************************************************)
\* Largest total number of risk factors the LLM returns within one request
\* (summed over the three category responses), for the scenario inputs.
MaxFactors == 3

\* The same bound when the request is drawn from the whole input space.
MaxInputFactors == 1

\* Largest number of get_template calls made on the registry.
MaxLookups == 3

(***************************************************************************)
(* Risk level scale and aggregation (risk_assessment.py 281-296, 330-344). *)
(***************************************************************************)
\* models.py RiskLevel: the four values of the enumeration.
RiskLevel == {"No Risk", "Low", "Medium", "High"}

\* Variant of RiskLabels: the labels sorted as strings (sorted(risk_levels)).
RiskLabelsSorted == <<"High", "Low", "Medium", "No Risk">>

\* list(risk_levels.keys()): dict keys in insertion order.
RiskLabels == <<"No Risk", "Low", "Medium", "High">>

\* risk_levels.get(level, 0)
RiskRank(level) ==
    CASE level = "No Risk" -> 0
      [] level = "Low"     -> 1
      [] level = "Medium"  -> 2
      [] level = "High"    -> 3
      [] OTHER             -> 0

\* Variant of TotalRisk: the loop assigns (total_risk = factor_risk) instead of
\* accumulating, so the total is the rank of the last level.
TotalRiskLast(levels) ==
    IF levels = <<>> THEN 0 ELSE RiskRank(levels[Len(levels)])

\* total_risk accumulated by the for loop over the levels, in list order.
RECURSIVE TotalRisk(_)
TotalRisk(levels) ==
    IF levels = <<>> THEN 0
    ELSE TotalRisk(SubSeq(levels, 1, Len(levels) - 1)) + RiskRank(levels[Len(levels)])

\* Variant of PyRound: round(total), the division by count forgotten.
PyRoundNoDivide(total, count) == total

\* Variant of PyRound: an exact half goes up.
PyRoundHalfUp(total, count) ==
    LET q == total \div count
        r == total % count
    IN  IF 2 * r < count THEN q ELSE q + 1

\* Python round(total / count) for count > 0 and total >= 0: nearest integer,
\* an exact half goes to the even neighbour.
PyRound(total, count) ==
    LET q == total \div count
        r == total % count
    IN  IF 2 * r < count THEN q
        ELSE IF 2 * r > count THEN q + 1
        ELSE IF q % 2 = 0 THEN q ELSE q + 1
\* Variant of AvgRisk: an empty list of levels counts as Medium.
AvgRiskEmptyMedium(levels) ==
    IF Len(levels) > 0 THEN PyRound(TotalRisk(levels), Len(levels)) ELSE 2

\* avg_risk = round(total_risk / count) if count > 0 else 0
AvgRisk(levels) ==
    IF Len(levels) > 0 THEN PyRound(TotalRisk(levels), Len(levels)) ELSE 0

\* Python list indexing: seq[i] is defined for -len <= i < len.
IndexInRange(seq, i) == i >= 0 - Len(seq) /\ i < Len(seq)

\* list(risk_levels.keys())[avg_risk], for an index that is in range.
LabelAt(i) == IF i >= 0 THEN RiskLabels[i + 1] ELSE RiskLabels[Len(RiskLabels) + i + 1]


(***************************************************************************)
(* Inputs of a request.                                                    *)
(***************************************************************************)
\* Attributes of an instance of models.py PropertyData.
PropertyDataFields ==
    {"propertyAge", "numberOfUnits", "constructionType", "safetyFeatures", "location"}

\* Objects of class PropertyData, as the HTTP layer constructs them.
PropertyDataObjects ==
    [propertyAge      : {45},
     numberOfUnits    : {12},
     constructionType : {"Wood Frame"},
     safetyFeatures   : {<<>>, <<"Smoke Detectors", "Fire Alarm">>},
     location         : {<<>>, <<"">>, <<"Miami, FL">>}]

\* The same object carrying an additional attribute missingSafetyFeatures.
WithMissingSafetyFeatures(pd, features) ==
    [a \in PropertyDataFields \cup {"missingSafetyFeatures"} |->
        IF a = "missingSafetyFeatures" THEN features ELSE pd[a]]

\* get_risk_assessment takes any object as property_data: PropertyData
\* objects, and objects that also have a missingSafetyFeatures list.
PropertyInputs ==
    PropertyDataObjects \cup
    {WithMissingSafetyFeatures(pd, m) :
        pd \in PropertyDataObjects, m \in {<<>>, <<"Sprinklers", "Fire Escapes">>}}

HasAttr(obj, attr) == attr \in DOMAIN obj

\* The request of the concrete scenario: a PropertyData object, and the same
\* object with the list of missing safety features the client sent.
ScenarioData ==
    [propertyAge      |-> 45,
     numberOfUnits    |-> 12,
     constructionType |-> "Wood Frame",
     safetyFeatures   |-> <<"Smoke Detectors">>,
     location         |-> <<"Miami, FL">>]

ScenarioInputs ==
    {ScenarioData, WithMissingSafetyFeatures(ScenarioData, <<"Sprinklers", "Fire Escapes">>)}

\* Provider strings and model names a caller passes.
Providers == {"openai", "Anthropic", "azure"}
ModelNames == {<<>>, <<"gpt-4">>}

(***************************************************************************)
(* get_llm (risk_assessment.py 49-63).                                     *)
(***************************************************************************)
\* str.lower() on the provider strings of the model.
Lower(s) ==
    CASE s = "Anthropic" -> "anthropic"
      [] OTHER           -> s

\* model_name or default_model
OrDefault(opt, default) == IF opt # <<>> /\ opt[1] # "" THEN opt[1] ELSE default

\* Variant of get_llm: the provider is compared as given (no lower()).
get_llm_case_sensitive(provider, model_name) ==
    IF provider = "openai"
    THEN [class |-> "ChatOpenAI", model |-> OrDefault(model_name, "gpt-3.5-turbo")]
    ELSE IF provider = "anthropic"
    THEN [class |-> "Anthropic", model |-> OrDefault(model_name, "claude-2")]
    ELSE [class |-> "ChatOpenAI", model |-> OrDefault(model_name, "gpt-3.5-turbo")]

\* The handle get_llm returns: the class constructed and the model bound.
get_llm(provider, model_name) ==
    LET p == Lower(provider)
    IN  IF p = "openai"
        THEN [class |-> "ChatOpenAI", model |-> OrDefault(model_name, "gpt-3.5-turbo")]
        ELSE IF p = "anthropic"
        THEN [class |-> "Anthropic", model |-> OrDefault(model_name, "claude-2")]
        ELSE [class |-> "ChatOpenAI", model |-> OrDefault(model_name, "gpt-3.5-turbo")]

(***************************************************************************)
(* Preparing the prompt input (risk_assessment.py 234-267).                *)
(***************************************************************************)
\* categories = ["Property Assessment", "Location Factors", "Liability Risks"]
Categories == <<"Property Assessment", "Location Factors", "Liability Risks">>

CatIdx == 1..Len(Categories)

\* ", ".join(items)
RECURSIVE Join(_)
Join(items) ==
    IF items = <<>> THEN ""
    ELSE IF Len(items) = 1 THEN items[1]
    ELSE items[1] \o ", " \o Join(Tail(items))

\* ", ".join(features) if features else "None"
FeaturesStr(features) == IF features # <<>> THEN Join(features) ELSE "None"

\* property_data.location if property_data.location else "Not specified"
LocationStr(location) ==
    IF location # <<>> /\ location[1] # "" THEN location[1] ELSE "Not specified"

\* input_data, built per category inside the try block.
InputData(pd, category_name) ==
    IF category_name = "Property Assessment"
    THEN [property_age            |-> pd.propertyAge,
          number_of_units         |-> pd.numberOfUnits,
          construction_type       |-> pd.constructionType,
          safety_features         |-> FeaturesStr(pd.safetyFeatures),
          missing_safety_features |-> FeaturesStr(pd.missingSafetyFeatures)]
    ELSE IF category_name = "Location Factors"
    THEN [location          |-> LocationStr(pd.location),
          number_of_units   |-> pd.numberOfUnits,
          property_age      |-> pd.propertyAge,
          construction_type |-> pd.constructionType]
    ELSE [property_age            |-> pd.propertyAge,
          number_of_units         |-> pd.numberOfUnits,
          construction_type       |-> pd.constructionType,
          safety_features         |-> FeaturesStr(pd.safetyFeatures),
          missing_safety_features |-> FeaturesStr(pd.missingSafetyFeatures),
          location                |-> LocationStr(pd.location)]

(***************************************************************************)
(* The LLM's parsed output and the category built from it                  *)
(* (risk_assessment.py 272-315, models.py 18-35).                          *)
(***************************************************************************)
\* The keys every parsed factor must have (line 277).
RequiredFields == {"category", "risk_level", "description"}

\* Factors the parser can yield from the LLM's text: dicts with the three
\* keys, whose risk_level is one of the four labels or another string, and
\* dicts that lack a key.
LlmFactors ==
    [category    : {"Building Age"},
     risk_level  : RiskLevel \cup {"Critical"},
     description : {"aged wiring"}]
    \cup {[category |-> "Building Age", risk_level |-> "High"]}

\* parsed_result["risk_factors"] of at most n factors.
LlmFactorLists(n) == UNION {[1..k -> LlmFactors] : k \in 0..n}

\* Variant of HasRequiredFields: any(...) instead of all(...).
HasRequiredFieldsAny(factor) == RequiredFields \cap DOMAIN factor # {}

\* Line 277 for one factor: all(k in factor for k in [...]).
HasRequiredFields(factor) == RequiredFields \subseteq DOMAIN factor

\* pydantic coercion of a dict into models.py RiskFactor: the three declared
\* fields are kept, any other key is dropped.
RiskFactorOf(factor) ==
    [category    |-> factor.category,
     risk_level  |-> factor.risk_level,
     description |-> factor.description]

\* pydantic validation of a dict as models.py RiskFactor: the three declared
\* fields are required and risk_level must be a value of RiskLevel.
ValidRiskFactor(factor) ==
    /\ RequiredFields \subseteq DOMAIN factor
    /\ factor.risk_level \in RiskLevel

\* [factor["risk_level"] for factor in risk_factors]
LevelsOf(factors) == [i \in 1..Len(factors) |-> factors[i].risk_level]

\* Variant of FallbackCategory: the except block returns no risk factor.
FallbackCategoryNoFactor(category_name, err) ==
    [category_name       |-> category_name,
     category_risk_level |-> "Medium",
     risk_factors        |-> << >>]

\* The fallback RiskCategory of the except block (lines 307-315).
FallbackCategory(category_name, err) ==
    [category_name       |-> category_name,
     category_risk_level |-> "Medium",
     risk_factors        |->
        << [category    |-> "Error in " \o category_name \o " Assessment",
            risk_level  |-> "Medium",
            description |-> "Unable to generate detailed assessment for this category. Error: " \o err] >>]

\* str(e) of the errors the try block can catch.
ErrProvider == "provider error"
ErrParse == "Got invalid return object"
ErrMissingFields(category_name) ==
    "Missing required fields in risk factor for " \o category_name
ErrIndex == "list index out of range"
ErrValidation == "validation error for RiskCategory"

\* The error lines 276-303 raise on the parsed factors, "" when none.
AssessError(category_name, factors) ==
    IF \E i \in 1..Len(factors) : ~HasRequiredFields(factors[i])
    THEN ErrMissingFields(category_name)
    ELSE IF ~IndexInRange(RiskLabels, AvgRisk(LevelsOf(factors)))
    THEN ErrIndex
    ELSE IF \E i \in 1..Len(factors) : ~ValidRiskFactor(factors[i])
    THEN ErrValidation
    ELSE ""

\* The largest rank among the levels (0 for none).
RECURSIVE HighestRank(_)
HighestRank(levels) ==
    IF levels = <<>> THEN 0
    ELSE LET rest == HighestRank(Tail(levels))
             head == RiskRank(Head(levels))
         IN  IF head > rest THEN head ELSE rest

\* Variant of AssessedCategory: the category takes the highest level of any
\* of its factors instead of the rounded average.
AssessedCategoryHighest(category_name, factors) ==
    [category_name       |-> category_name,
     category_risk_level |-> LabelAt(HighestRank(LevelsOf(factors))),
     risk_factors        |-> [i \in 1..Len(factors) |-> RiskFactorOf(factors[i])]]

\* Variant of AssessedCategory: factors at "No Risk" are left out of the
\* returned list.
AssessedCategoryRiskyOnly(category_name, factors) ==
    [category_name       |-> category_name,
     category_risk_level |-> LabelAt(AvgRisk(LevelsOf(factors))),
     risk_factors        |->
        SelectSeq([i \in 1..Len(factors) |-> RiskFactorOf(factors[i])],
                  LAMBDA f : f.risk_level # "No Risk")]

\* The RiskCategory lines 280-303 return when no error is raised.
AssessedCategory(category_name, factors) ==
    [category_name       |-> category_name,
     category_risk_level |-> LabelAt(AvgRisk(LevelsOf(factors))),
     risk_factors        |-> [i \in 1..Len(factors) |-> RiskFactorOf(factors[i])]]

(***************************************************************************)
(* POST /api/assess (app.py 19-82).                                        *)
(***************************************************************************)
MockFactor(category, risk_level) ==
    [category |-> category, risk_level |-> risk_level, description |-> "mock"]

\* The literal the handler returns.
MockAssessment ==
    [overall_risk_level |-> "Medium",
     categories |->
       << [category_name       |-> "Property Assessment",
           category_risk_level |-> "Medium",
           risk_factors        |-> << MockFactor("Building Age", "High"),
                                      MockFactor("Construction Materials", "Low"),
                                      MockFactor("Safety Features", "Medium") >>],
          [category_name       |-> "Location Factors",
           category_risk_level |-> "Low",
           risk_factors        |-> << MockFactor("Natural Disasters", "No Risk"),
                                      MockFactor("Neighborhood Safety", "Low") >>],
          [category_name       |-> "Liability Risks",
           category_risk_level |-> "Medium",
           risk_factors        |-> << MockFactor("Tenant Safety", "Medium"),
                                      MockFactor("Regulatory Compliance", "Low") >>] >>]

(***************************************************************************)
(* Prompt registry (prompts/registry.py, prompts/*.py).                    *)
(***************************************************************************)
\* The input variables of the three prompt classes (system and user part).
PromptTemplate(user_input_variables) ==
    [system |-> <<"format_instructions">>, user |-> user_input_variables]

\* self._templates as PromptRegistry.__init__ fills it.
Templates ==
    [category \in {"Property Assessment", "Location Factors", "Liability Risks"} |->
        IF category = "Property Assessment"
        THEN PromptTemplate(<<"property_age", "number_of_units", "construction_type",
                              "safety_features", "missing_safety_features">>)
        ELSE IF category = "Location Factors"
        THEN PromptTemplate(<<"location", "number_of_units", "property_age",
                              "construction_type">>)
        ELSE PromptTemplate(<<"property_age", "number_of_units", "construction_type",
                              "safety_features", "missing_safety_features", "location">>)]

\* Category names a caller looks up: the three fixed ones and unknown ones.
LookupNames == {"Property Assessment", "Location Factors", "Liability Risks",
                "Market Risks", "location factors"}

\* Variant of get_template: the dict is indexed (self._templates[category]),
\* which raises KeyError for an unknown category.
get_template_indexed(category) ==
    [category |-> category,
     raised   |-> category \notin DOMAIN Templates,
     value    |-> IF category \in DOMAIN Templates THEN << Templates[category] >> ELSE <<>>]

\* PromptRegistry.get_template: self._templates.get(category).  The outcome
\* of the call: whether it raised, and the Optional template it returned.
get_template(category) ==
    [category |-> category,
     raised   |-> FALSE,
     value    |-> IF category \in DOMAIN Templates THEN << Templates[category] >> ELSE <<>>]

(***************************************************************************)
(* State.                                                                  *)
(***************************************************************************)
VARIABLES
    property_data,   \* argument of get_risk_assessment and of the HTTP handler
    provider,        \* argument of get_risk_assessment
    model_name,      \* argument of get_risk_assessment (Optional)
    pc,              \* get_risk_assessment: "start", "gather", "done", "raised"
    llm,             \* Optional handle returned by get_llm
    task,            \* per category: "created", "awaiting", "returned",
                     \*               "fallback", "raised"
    input_data,      \* per category: Optional input_data passed to the chain
    calls,           \* per category: number of chain.acall invocations
    outcome,         \* per category: how the LLM call ended: "none",
                     \*   "provider_error", "parse_error", "parsed"
    parsed,          \* per category: parsed_result["risk_factors"]
    avg_risk,        \* Optional avg_risk, per category and (index 0) overall
    result,          \* per category: Optional RiskCategory the task returned
    assessment,      \* Optional value returned by get_risk_assessment
    http_response,   \* Optional body returned by POST /api/assess
    quota,           \* number of factors the LLM may still return (bound)
    registry,        \* PromptRegistry._instance exists
    lookups          \* outcomes of the get_template calls made, in order

registry_vars == <<registry, lookups>>

vars == <<registry_vars, property_data, provider, model_name, pc, llm, task, input_data,
          calls, outcome, parsed, avg_risk, result, assessment, http_response,
          quota>>

inputs == <<property_data, provider, model_name>>

\* The state when get_risk_assessment / the HTTP handler is entered.
Entered ==
    /\ pc = "start"
    /\ llm = <<>>
    /\ task = [c \in CatIdx |-> "created"]
    /\ input_data = [c \in CatIdx |-> <<>>]
    /\ calls = [c \in CatIdx |-> 0]
    /\ outcome = [c \in CatIdx |-> "none"]
    /\ parsed = [c \in CatIdx |-> <<>>]
    /\ avg_risk = [k \in {0} \cup CatIdx |-> <<>>]
    /\ result = [c \in CatIdx |-> <<>>]
    /\ assessment = <<>>
    /\ http_response = <<>>
    /\ registry = FALSE
    /\ lookups = <<>>

\* A request of the concrete scenario with the default provider.
Init ==
    /\ property_data \in ScenarioInputs
    /\ provider = "openai"
    /\ model_name = <<>>
    /\ quota = MaxFactors
    /\ Entered

\* A request drawn from the whole input space.
InitInputs ==
    /\ property_data \in PropertyInputs
    /\ provider \in Providers
    /\ model_name \in ModelNames
    /\ quota = MaxInputFactors
    /\ Entered

(***************************************************************************)
(* get_risk_assessment (risk_assessment.py 317-351).                       *)
(***************************************************************************)
\* Line 320: the handle is resolved.
ResolveLLM ==
    /\ pc = "start"
    /\ llm' = << get_llm(provider, model_name) >>
    /\ pc' = "gather"
    /\ UNCHANGED <<registry_vars, inputs, task, input_data, calls, outcome, parsed, avg_risk,
                   result, assessment, http_response, quota>>

\* Line 320: the provider class cannot be constructed (no credentials);
\* the error leaves get_risk_assessment.
ResolveLLMFails ==
    /\ pc = "start"
    /\ pc' = "raised"
    /\ UNCHANGED <<registry_vars, inputs, llm, task, input_data, calls, outcome, parsed,
                   avg_risk, result, assessment, http_response, quota>>

\* Lines 235-237 read three attributes of property_data outside the try.
PrepareRaises(pd) ==
    \/ ~HasAttr(pd, "safetyFeatures")
    \/ ~HasAttr(pd, "missingSafetyFeatures")
    \/ ~HasAttr(pd, "location")

\* assess_property_category from its start to the await of chain.acall
\* (lines 206-269).  The event loop starts the tasks in list order.
StartCategory(c) ==
    /\ pc = "gather"
    /\ task[c] = "created"
    /\ \A d \in CatIdx : d < c => task[d] # "created"
    /\ IF PrepareRaises(property_data)
       THEN /\ task' = [task EXCEPT ![c] = "raised"]
            /\ UNCHANGED <<input_data, calls>>
       ELSE /\ task' = [task EXCEPT ![c] = "awaiting"]
            /\ input_data' = [input_data EXCEPT ![c] = << InputData(property_data, Categories[c]) >>]
            /\ calls' = [calls EXCEPT ![c] = @ + 1]
    /\ UNCHANGED <<registry_vars, inputs, pc, llm, outcome, parsed, avg_risk, result,
                   assessment, http_response, quota>>

\* Variant of LLMFails: the provider error of one category also ends the
\* other categories that are still waiting for their response.
LLMFailsCancelsOthers(c) ==
    /\ task[c] = "awaiting"
    /\ outcome' = [outcome EXCEPT ![c] = "provider_error"]
    /\ result' = [d \in CatIdx |->
                    IF task[d] = "awaiting"
                    THEN << FallbackCategory(Categories[d], ErrProvider) >>
                    ELSE result[d]]
    /\ task' = [d \in CatIdx |-> IF task[d] = "awaiting" THEN "fallback" ELSE task[d]]
    /\ UNCHANGED <<registry_vars, inputs, pc, llm, input_data, calls, parsed, avg_risk,
                   assessment, http_response, quota>>

\* Variant of LLMFails: the first provider error of a category is answered
\* by invoking the chain a second time.
LLMFailsRetries(c) ==
    /\ task[c] = "awaiting"
    /\ IF calls[c] < 2
       THEN /\ calls' = [calls EXCEPT ![c] = @ + 1]
            /\ UNCHANGED <<outcome, result, task>>
       ELSE /\ outcome' = [outcome EXCEPT ![c] = "provider_error"]
            /\ result' = [result EXCEPT ![c] = << FallbackCategory(Categories[c], ErrProvider) >>]
            /\ task' = [task EXCEPT ![c] = "fallback"]
            /\ UNCHANGED calls
    /\ UNCHANGED <<registry_vars, inputs, pc, llm, input_data, parsed, avg_risk,
                   assessment, http_response, quota>>

\* chain.acall raises (provider or network error): except block.
LLMFails(c) ==
    /\ task[c] = "awaiting"
    /\ outcome' = [outcome EXCEPT ![c] = "provider_error"]
    /\ result' = [result EXCEPT ![c] = << FallbackCategory(Categories[c], ErrProvider) >>]
    /\ task' = [task EXCEPT ![c] = "fallback"]
    /\ UNCHANGED <<registry_vars, inputs, pc, llm, input_data, calls, parsed, avg_risk,
                   assessment, http_response, quota>>

\* category_parser.parse raises on the LLM's text (line 273): except block.
LLMMalformed(c) ==
    /\ task[c] = "awaiting"
    /\ outcome' = [outcome EXCEPT ![c] = "parse_error"]
    /\ result' = [result EXCEPT ![c] = << FallbackCategory(Categories[c], ErrParse) >>]
    /\ task' = [task EXCEPT ![c] = "fallback"]
    /\ UNCHANGED <<registry_vars, inputs, pc, llm, input_data, calls, parsed, avg_risk,
                   assessment, http_response, quota>>

\* The LLM's text parses into a list of factors; lines 276-315.
LLMResponds(c) ==
    /\ task[c] = "awaiting"
    /\ \E factors \in LlmFactorLists(quota) :
         LET err == AssessError(Categories[c], factors)
             validated == \A i \in 1..Len(factors) : HasRequiredFields(factors[i])
         IN  /\ outcome' = [outcome EXCEPT ![c] = "parsed"]
             /\ parsed' = [parsed EXCEPT ![c] = factors]
             /\ quota' = quota - Len(factors)
             /\ avg_risk' = IF validated
                            THEN [avg_risk EXCEPT ![c] = << AvgRisk(LevelsOf(factors)) >>]
                            ELSE avg_risk
             /\ IF err = ""
                THEN /\ result' = [result EXCEPT ![c] = << AssessedCategory(Categories[c], factors) >>]
                     /\ task' = [task EXCEPT ![c] = "returned"]
                ELSE /\ result' = [result EXCEPT ![c] = << FallbackCategory(Categories[c], err) >>]
                     /\ task' = [task EXCEPT ![c] = "fallback"]
    /\ UNCHANGED <<registry_vars, inputs, pc, llm, input_data, calls, assessment, http_response>>

\* category_results as asyncio.gather returns them: in task order.
CategoryResults == [c \in CatIdx |-> result[c][1]]

\* [category.category_risk_level for category in category_results]
CategoryLevels(results) == [i \in 1..Len(results) |-> results[i].category_risk_level]

\* Variant of OverallAssessment: the highest category level wins.
OverallAssessmentHighest(results) ==
    [overall_risk_level |-> LabelAt(HighestRank(CategoryLevels(results))),
     categories         |-> results]

\* A category whose single factor is the error placeholder.
IsErrorPlaceholder(category) ==
    /\ Len(category.risk_factors) = 1
    /\ Len(category.risk_factors[1].category) >= 8
    /\ SubSeq(category.risk_factors[1].category, 1, 8) = "Error in"

\* Variant of OverallAssessment: categories that failed are left out of the
\* returned list.
OverallAssessmentDropFailed(results) ==
    [overall_risk_level |-> LabelAt(AvgRisk(CategoryLevels(results))),
     categories         |-> SelectSeq(results, LAMBDA r : ~IsErrorPlaceholder(r))]

\* The value lines 348-351 return.
OverallAssessment(results) ==
    [overall_risk_level |-> LabelAt(AvgRisk(CategoryLevels(results))),
     categories         |-> results]

\* Variant of GatherReturns: the await ends as soon as one task has completed
\* (asyncio.wait with FIRST_COMPLETED) and aggregates the results at hand.
GatherReturnsFirstCompleted ==
    /\ pc = "gather"
    /\ \E c \in CatIdx : task[c] \in {"returned", "fallback"}
    /\ LET done == SelectSeq([c \in CatIdx |-> c],
                             LAMBDA c : task[c] \in {"returned", "fallback"})
           results == [i \in 1..Len(done) |-> result[done[i]][1]]
       IN  /\ avg_risk' = [avg_risk EXCEPT ![0] = << AvgRisk(CategoryLevels(results)) >>]
           /\ assessment' = << OverallAssessment(results) >>
           /\ pc' = "done"
    /\ UNCHANGED <<registry_vars, inputs, llm, task, input_data, calls, outcome, parsed,
                   result, http_response, quota>>

\* asyncio.gather completes with the three results; lines 329-351.
GatherReturns ==
    /\ pc = "gather"
    /\ \A c \in CatIdx : task[c] \in {"returned", "fallback"}
    /\ avg_risk' = [avg_risk EXCEPT ![0] = << AvgRisk(CategoryLevels(CategoryResults)) >>]
    /\ IF IndexInRange(RiskLabels, AvgRisk(CategoryLevels(CategoryResults)))
       THEN /\ assessment' = << OverallAssessment(CategoryResults) >>
            /\ pc' = "done"
       ELSE /\ pc' = "raised"
            /\ UNCHANGED assessment
    /\ UNCHANGED <<registry_vars, inputs, llm, task, input_data, calls, outcome, parsed,
                   result, http_response, quota>>

\* asyncio.gather re-raises the first error a task raised (line 327).
GatherRaises ==
    /\ pc = "gather"
    /\ \E c \in CatIdx : task[c] = "raised"
    /\ pc' = "raised"
    /\ UNCHANGED <<registry_vars, inputs, llm, task, input_data, calls, outcome, parsed,
                   avg_risk, result, assessment, http_response, quota>>

(***************************************************************************)
(* POST /api/assess (app.py 19-82).                                        *)
(***************************************************************************)
\* The handler returns its literal for any PropertyData.
assess_property ==
    /\ http_response = <<>>
    /\ http_response' = << MockAssessment >>
    /\ UNCHANGED <<registry_vars, inputs, pc, llm, task, input_data, calls, outcome, parsed,
                   avg_risk, result, assessment, quota>>

Next ==
    \/ ResolveLLM
    \/ ResolveLLMFails
    \/ \E c \in CatIdx : StartCategory(c)
    \/ \E c \in CatIdx : LLMFails(c)
    \/ \E c \in CatIdx : LLMMalformed(c)
    \/ \E c \in CatIdx : LLMResponds(c)
    \/ GatherReturns
    \/ GatherRaises
    \/ assess_property

Spec == Init /\ [][Next]_vars

SpecInputs == InitInputs /\ [][Next]_vars

\* A request of the concrete scenario whose LLM answers briefly.
InitLive ==
    /\ property_data \in ScenarioInputs
    /\ provider = "openai"
    /\ model_name = <<>>
    /\ quota = MaxInputFactors
    /\ Entered

\* The event loop runs every task that is ready (the coordinator and each
\* created task get their step), and an awaited LLM call eventually ends:
\* it fails, returns unparseable text or returns a list of factors.
Fairness ==
    /\ WF_vars(ResolveLLM \/ ResolveLLMFails)
    /\ \A c \in CatIdx : WF_vars(StartCategory(c))
    /\ \A c \in CatIdx : WF_vars(LLMFails(c) \/ LLMMalformed(c) \/ LLMResponds(c))
    /\ WF_vars(GatherReturns)
    /\ WF_vars(GatherRaises)

SpecLive == InitLive /\ [][Next]_vars /\ Fairness

(***************************************************************************)
(* PromptRegistry (prompts/registry.py 19-56).                             *)
(***************************************************************************)
request_vars == <<inputs, pc, llm, task, input_data, calls, outcome, parsed,
                  avg_risk, result, assessment, http_response, quota>>

\* get_instance: the singleton is created on first use.
get_instance ==
    /\ ~registry
    /\ registry' = TRUE
    /\ UNCHANGED <<lookups, request_vars>>

\* A caller looks a category name up in the registry.
LookupTemplate(category) ==
    /\ registry
    /\ Len(lookups) < MaxLookups
    /\ lookups' = Append(lookups, get_template(category))
    /\ UNCHANGED <<registry, request_vars>>

NextRegistry ==
    \/ get_instance
    \/ \E category \in LookupNames : LookupTemplate(category)

SpecRegistry == Init /\ [][NextRegistry]_vars

(***************************************************************************)
(* Properties.                                                             *)
(***************************************************************************)
\* The rank table of the risk level scale: No Risk=0, Low=1, Medium=2, High=3.
ScaleRank == [l \in RiskLevel |->
                 IF l = "No Risk" THEN 0 ELSE IF l = "Low" THEN 1
                 ELSE IF l = "Medium" THEN 2 ELSE 3]

RECURSIVE ScaleSum(_)
ScaleSum(levels) ==
    IF levels = <<>> THEN 0 ELSE ScaleRank[Head(levels)] + ScaleSum(Tail(levels))

\* rank is a nearest integer to the mean of the levels' ranks:
\* |rank - sum/n| <= 1/2, stated without division.
NearestToMean(rank, levels) ==
    LET d == Len(levels) * rank - ScaleSum(levels)
    IN  2 * (IF d < 0 THEN 0 - d ELSE d) <= Len(levels)

\* The LLM call of category c failed: the provider raised or its text did
\* not parse.
LLMCallFailed(c) == outcome[c] \in {"provider_error", "parse_error"}

\* The fallback shape: level Medium and exactly one Medium factor whose
\* category is "Error in <category_name> Assessment".
FallbackShaped(category, c) ==
    /\ category.category_name = Categories[c]
    /\ category.category_risk_level = "Medium"
    /\ Len(category.risk_factors) = 1
    /\ category.risk_factors[1].risk_level = "Medium"
    /\ SubSeq(category.risk_factors[1].category, 1, 8) = "Error in"
    /\ category.risk_factors[1].category = "Error in " \o Categories[c] \o " Assessment"

\* C1: if a category's LLM call fails, the request does not fail, the task
\* returns the fallback category (Medium, one Medium factor named
\* "Error in <category_name> Assessment"), and the returned assessment has
\* exactly 3 categories with that fallback at the failed category's place.
C1_FailedCallGivesFallback ==
    \A c \in CatIdx :
        LLMCallFailed(c) =>
            /\ pc # "raised"
            /\ task[c] = "fallback"
            /\ FallbackShaped(result[c][1], c)
            /\ pc = "done" =>
                 /\ Len(assessment[1].categories) = 3
                 /\ FallbackShaped(assessment[1].categories[c], c)

\* An assessment was returned in which one LLM call failed and another
\* category was assessed from its factors.
C1_Witness ==
    /\ pc = "done"
    /\ \E c, d \in CatIdx : LLMCallFailed(c) /\ task[d] = "returned"

\* The argument is an instance of models.py PropertyData.
IsPropertyData(pd) == DOMAIN pd = PropertyDataFields

\* C2: for every input accepted by the PropertyData model and each category,
\* assess_property_category never raises, so the joint await never observes
\* a raised error.
C2_CategoryNeverRaises ==
    IsPropertyData(property_data) =>
        /\ \A c \in CatIdx : task[c] # "raised"
        /\ llm # <<>> => pc # "raised"

C4_OverallLevelIsRoundedMean ==
    pc = "done" =>
        LET levels == CategoryLevels(assessment[1].categories)
        IN  /\ Len(levels) = 3
            /\ assessment[1].overall_risk_level \in RiskLevel
            /\ \A i \in 1..Len(levels) : levels[i] \in RiskLevel
            /\ NearestToMean(ScaleRank[assessment[1].overall_risk_level], levels)

\* An assessment was returned whose categories' mean rank is not an integer.
C4_Witness ==
    /\ pc = "done"
    /\ ScaleSum(CategoryLevels(assessment[1].categories)) % 3 # 0

\* C5: every rounded mean the aggregation computes is an integer in 0..3, an
\* index inside the list of four labels, and the level derived from it is
\* one of the four labels (no category falls back on an index error).
C5_RoundedMeanInRange ==
    /\ \A k \in DOMAIN avg_risk :
          avg_risk[k] # <<>> =>
             /\ avg_risk[k][1] \in 0..3
             /\ IndexInRange(RiskLabels, avg_risk[k][1])
             /\ LabelAt(avg_risk[k][1]) \in RiskLevel
    /\ \A c \in CatIdx :
          /\ task[c] = "returned" =>
                result[c][1].category_risk_level = LabelAt(avg_risk[c][1])
          /\ outcome[c] = "parsed" => AssessError(Categories[c], parsed[c]) # ErrIndex
    /\ pc = "done" => assessment[1].overall_risk_level = LabelAt(avg_risk[0][1])

\* Both aggregations reached the top of the range: a category of at least
\* two factors and the overall level computed index 3.
C5_Witness ==
    /\ pc = "done"
    /\ avg_risk[0] = <<3>>
    /\ \E c \in CatIdx : Len(parsed[c]) >= 2 /\ avg_risk[c] = <<3>>

\* The permutations of the three positions.
Permutations3 == {p \in [CatIdx -> CatIdx] : \A i, j \in CatIdx : p[i] = p[j] => i = j}

\* C6: the overall aggregation is order-independent: aggregating the three
\* category results in any order gives the overall level that was returned.
C6_OverallOrderIndependent ==
    pc = "done" =>
        \A p \in Permutations3 :
            OverallAssessment([i \in CatIdx |-> assessment[1].categories[p[i]]]).overall_risk_level
                = assessment[1].overall_risk_level

\* An assessment was returned whose three categories have three different
\* levels.
C6_Witness ==
    /\ pc = "done"
    /\ Cardinality({assessment[1].categories[i].category_risk_level : i \in CatIdx}) = 3

\* All factors of the category are at level l, and there is at least one.
UniformFactors(category, l) ==
    /\ category.risk_factors # <<>>
    /\ \A i \in 1..Len(category.risk_factors) : category.risk_factors[i].risk_level = l

\* C7: aggregation preserves a uniform level: a category returned from
\* factors that all have level L has level L, and an assessment whose three
\* categories all have level L has overall level L.
C7_UniformLevelPreserved ==
    \A l \in RiskLevel :
        /\ \A c \in CatIdx :
              (task[c] = "returned" /\ UniformFactors(result[c][1], l))
                 => result[c][1].category_risk_level = l
        /\ (pc = "done" /\ \A i \in CatIdx : assessment[1].categories[i].category_risk_level = l)
              => assessment[1].overall_risk_level = l

\* An assessment was returned for which every factor of every category was
\* High.
C7_Witness ==
    /\ pc = "done"
    /\ \A c \in CatIdx : task[c] = "returned" /\ UniformFactors(result[c][1], "High")

\* C8: get_risk_assessment returns a complete assessment or raises: a value
\* is returned exactly when it ends normally, it then has exactly 3
\* categories, one per fixed category name, and an overall level; when it
\* raises, nothing is returned.
C8_CompleteOrError ==
    /\ (assessment # <<>>) <=> (pc = "done")
    /\ assessment # <<>> =>
          /\ Len(assessment[1].categories) = 3
          /\ \A c \in CatIdx : assessment[1].categories[c].category_name = Categories[c]
          /\ assessment[1].overall_risk_level \in RiskLevel
          /\ \A c \in CatIdx : assessment[1].categories[c] = result[c][1]

\* An assessment was returned with a category whose parsed factors were
\* rejected, next to a category that was assessed.
C8_Witness ==
    /\ assessment # <<>>
    /\ \E c, d \in CatIdx :
          /\ outcome[c] = "parsed" /\ task[c] = "fallback"
          /\ task[d] = "returned"

\* C9: POST /api/assess invokes the Coordinator on the submitted data and
\* responds with the Coordinator's result: a response body is the assessment
\* get_risk_assessment returned for the request.
C9_HttpReturnsCoordinatorResult ==
    http_response # <<>> => (pc = "done" /\ http_response = assessment)

\* The input has no location / no missing safety features.
NoLocation(pd) == pd.location = <<>>
NoMissingSafetyFeatures(pd) ==
    ~HasAttr(pd, "missingSafetyFeatures") \/ pd.missingSafetyFeatures = <<>>

\* C10: without a location the location variable is rendered "Not
\* specified" in every template that uses it; without missingSafetyFeatures
\* (absent or empty) the missing-safety-features variable is rendered "None";
\* and the category assessment proceeds normally.
C10_MissingInputsRenderDefaults ==
    \A c \in CatIdx :
        (task[c] # "created" /\ (NoLocation(property_data) \/ NoMissingSafetyFeatures(property_data))) =>
            /\ task[c] # "raised"
            /\ input_data[c] # <<>>
            /\ (NoLocation(property_data) /\ "location" \in DOMAIN input_data[c][1])
                  => input_data[c][1].location = "Not specified"
            /\ (NoMissingSafetyFeatures(property_data)
                  /\ "missing_safety_features" \in DOMAIN input_data[c][1])
                  => input_data[c][1].missing_safety_features = "None"

\* The three fixed category names.
FixedCategories == {Categories[c] : c \in CatIdx}

OpenAISpellings == {"openai", "OpenAI", "OPENAI"}
AnthropicSpellings == {"anthropic", "Anthropic", "ANTHROPIC"}

\* C12: for a provider string that is neither "openai" nor "anthropic"
\* (compared case-insensitively) get_llm returns a handle of the default
\* provider, OpenAI, bound to the given model or, when none is given, to the
\* default model; a differently cased "anthropic" is still recognised.
C12_UnknownProviderDefaultsToOpenAI ==
    llm # <<>> =>
        /\ provider \notin OpenAISpellings \cup AnthropicSpellings =>
              /\ llm[1].class = "ChatOpenAI"
              /\ llm[1].model = IF model_name = <<>> THEN "gpt-3.5-turbo" ELSE model_name[1]
        /\ provider \in AnthropicSpellings => llm[1].class = "Anthropic"

\* A handle was resolved for an unrecognised provider without a model name.
C12_Witness ==
    /\ llm # <<>>
    /\ provider \notin OpenAISpellings \cup AnthropicSpellings
    /\ model_name = <<>>

\* The parsed factor has the three fields category, risk_level, description.
CompleteFactor(factor) == {"category", "risk_level", "description"} \subseteq DOMAIN factor

\* C13: if any factor of the parsed response lacks one of the three fields,
\* the response is rejected as a whole: the task returns the fallback
\* category, with the missing-fields error as its reason, and none of the
\* response's factors appear in the result.
C13_IncompleteFactorRejectsResponse ==
    \A c \in CatIdx :
        (outcome[c] = "parsed" /\ \E i \in 1..Len(parsed[c]) : ~CompleteFactor(parsed[c][i])) =>
            /\ task[c] = "fallback"
            /\ FallbackShaped(result[c][1], c)
            /\ result[c][1].risk_factors[1].description =
                  "Unable to generate detailed assessment for this category. Error: "
                  \o "Missing required fields in risk factor for " \o Categories[c]
            /\ \A i \in 1..Len(parsed[c]) : \A j \in 1..Len(result[c][1].risk_factors) :
                  CompleteFactor(parsed[c][i]) => result[c][1].risk_factors[j] # parsed[c][i]

\* A response was parsed in which a complete, valid factor stands next to a
\* factor that lacks a field.
C13_Witness ==
    \E c \in CatIdx :
        /\ outcome[c] = "parsed"
        /\ \E i, j \in 1..Len(parsed[c]) :
              /\ CompleteFactor(parsed[c][i]) /\ parsed[c][i].risk_level \in RiskLevel
              /\ ~CompleteFactor(parsed[c][j])

\* Sum of the ranks of the levels, a level outside the scale counting 0.
RECURSIVE LenientSum(_)
LenientSum(levels) ==
    IF levels = <<>> THEN 0
    ELSE (IF Head(levels) \in RiskLevel THEN ScaleRank[Head(levels)] ELSE 0)
         + LenientSum(Tail(levels))

\* The parsed response of category c is complete and has a factor whose
\* risk_level is not one of the four labels.
HasUnrecognisedLevel(c) ==
    /\ outcome[c] = "parsed"
    /\ \A i \in 1..Len(parsed[c]) : CompleteFactor(parsed[c][i])
    /\ \E i \in 1..Len(parsed[c]) : parsed[c][i].risk_level \notin RiskLevel

\* C14: when a parsed factor's risk_level is not one of the four labels, the
\* factor counts as rank 0 in the category's mean and the task returns the
\* category with the level computed from that mean.
C14_UnrecognisedLevelCountsAsZero ==
    \A c \in CatIdx :
        HasUnrecognisedLevel(c) =>
            /\ task[c] = "returned"
            /\ Len(result[c][1].risk_factors) = Len(parsed[c])
            /\ LET d == Len(parsed[c]) * ScaleRank[result[c][1].category_risk_level]
                        - LenientSum(LevelsOf(parsed[c]))
               IN  2 * (IF d < 0 THEN 0 - d ELSE d) <= Len(parsed[c])

\* The parsed response of category c conforms to the documented shape: a
\* list of factors with exactly the three fields, risk_level a label.
WellFormedResponse(c) ==
    /\ outcome[c] = "parsed"
    /\ \A i \in 1..Len(parsed[c]) :
          /\ DOMAIN parsed[c][i] = {"category", "risk_level", "description"}
          /\ parsed[c][i].risk_level \in RiskLevel

\* C15: for a well-formed response the task returns a category (not the
\* fallback) whose risk_factors equal the parsed list: same length, same
\* order, same field values.
C15_RoundTripKeepsFactors ==
    \A c \in CatIdx :
        WellFormedResponse(c) =>
            /\ task[c] = "returned"
            /\ Len(result[c][1].risk_factors) = Len(parsed[c])
            /\ \A i \in 1..Len(parsed[c]) :
                  /\ result[c][1].risk_factors[i].category = parsed[c][i].category
                  /\ result[c][1].risk_factors[i].risk_level = parsed[c][i].risk_level
                  /\ result[c][1].risk_factors[i].description = parsed[c][i].description

\* A well-formed response of three factors at three different levels, in
\* descending order, was turned into a category.
C15_Witness ==
    \E c \in CatIdx :
        /\ WellFormedResponse(c)
        /\ Len(parsed[c]) = 3
        /\ ScaleRank[parsed[c][1].risk_level] > ScaleRank[parsed[c][2].risk_level]
        /\ ScaleRank[parsed[c][2].risk_level] > ScaleRank[parsed[c][3].risk_level]

\* The task of category c has completed with a RiskCategory.
Completed(c) == task[c] \in {"returned", "fallback"} /\ result[c] # <<>>

\* C16: the overall level is computed, and the assessment returned, only
\* after all three category assessments have completed: never while one of
\* them is still pending.
C16_OverallAfterAllCategories ==
    (pc = "done" \/ assessment # <<>> \/ avg_risk[0] # <<>>) =>
        \A c \in CatIdx : Completed(c)

\* The assessment was returned after all three LLM responses were parsed.
C16_Witness ==
    /\ pc = "done"
    /\ avg_risk[0] # <<>>
    /\ \A c \in CatIdx : outcome[c] = "parsed"

\* C17: the three category assessments are independent: in every
\* interleaving a completed category's result is decided by its own LLM
\* response alone (a category is assessed exactly when its own response is
\* complete and valid, and then carries that response's factors; otherwise
\* it is its own fallback), and the returned categories are in the fixed
\* order Property Assessment, Location Factors, Liability Risks.
C17_IndependentAndOrdered ==
    /\ \A c \in CatIdx :
          Completed(c) =>
             /\ outcome[c] # "none"
             /\ (task[c] = "returned") <=> WellFormedResponse(c)
             /\ task[c] = "returned" =>
                   /\ result[c][1].category_name = Categories[c]
                   /\ result[c][1].risk_factors = parsed[c]
             /\ task[c] = "fallback" => FallbackShaped(result[c][1], c)
    /\ pc = "done" =>
          \A c \in CatIdx :
             /\ assessment[1].categories[c].category_name = Categories[c]
             /\ assessment[1].categories[c] = result[c][1]

\* The third category was assessed and the second fell back on a failed
\* call while the first is still waiting for its response.
C17_Witness ==
    /\ task[1] = "awaiting"
    /\ task[2] = "fallback" /\ LLMCallFailed(2)
    /\ task[3] = "returned" /\ parsed[3] # <<>>

\* C18: once the three category assessments are issued, each of them
\* eventually completes with a result or a fallback, however the other two
\* end.
C18_IssuedCategoriesComplete ==
    \A c \in CatIdx : (pc = "gather") ~> (task[c] \in {"returned", "fallback"})


\* C19: there is no retry: within one request the LLM is invoked at most
\* once per category (at most three invocations in total), an invocation
\* that has ended has ended the category, and a failed invocation or parse
\* leaves the category with its fallback result.
C19_NoRetry ==
    /\ \A c \in CatIdx : calls[c] <= 1
    /\ calls[1] + calls[2] + calls[3] <= 3
    /\ \A c \in CatIdx :
          /\ task[c] \in {"awaiting", "returned", "fallback"} => calls[c] = 1
          /\ outcome[c] # "none" => task[c] \in {"returned", "fallback"}
          /\ outcome[c] \in {"provider_error", "parse_error"} =>
                /\ task[c] = "fallback"
                /\ FallbackShaped(result[c][1], c)

\* The request finished after three invocations, of which one failed at
\* the provider and one returned unparseable text.
C19_Witness ==
    /\ pc = "done"
    /\ calls = [c \in CatIdx |-> 1]
    /\ \E c, d \in CatIdx : outcome[c] = "provider_error" /\ outcome[d] = "parse_error"


\* C20: when the LLM response parses to an empty list of factors,
\* assess_property_category neither fails nor falls back: the rank is 0 and
\* it returns a RiskCategory with category_risk_level "No Risk" and an empty
\* risk_factors sequence.
C20_EmptyListIsNoRisk ==
    \A c \in CatIdx :
        (outcome[c] = "parsed" /\ parsed[c] = <<>>) =>
            /\ task[c] = "returned"
            /\ avg_risk[c] = <<0>>
            /\ result[c][1] = [category_name       |-> Categories[c],
                               category_risk_level |-> "No Risk",
                               risk_factors        |-> <<>>]

\* One category was answered with an empty list, another with factors.
C20_Witness ==
    \E c, d \in CatIdx :
        /\ outcome[c] = "parsed" /\ parsed[c] = <<>> /\ result[c] # <<>>
        /\ outcome[d] = "parsed" /\ parsed[d] # <<>>


\* The mean of the levels' ranks lies exactly halfway between two integers.
IsTie(levels) ==
    /\ Len(levels) > 0
    /\ (2 * ScaleSum(levels)) % (2 * Len(levels)) = Len(levels)

\* rank is the mean of the levels' ranks rounded half to even.
RoundsHalfToEven(rank, levels) ==
    /\ NearestToMean(rank, levels)
    /\ IsTie(levels) => rank % 2 = 0

====
